---- MODULE Spec2Model ----
(***************************************************************************)
(* FriCAS session driver (src/fricas_pro_cli.py): the child process, the   *)
(* _StreamReader thread that forwards its output one byte at a time, and   *)
(* FriCASSession.start / _wait_for_prompt / send / stop.                   *)
(*                                                                         *)
(* Time is counted in poll intervals (the 0.05 s of q.get and time.sleep). *)
(* The driver's own computation takes no time: time passes only while the  *)
(* driver is blocked in q.get on an empty queue or in the time.sleep of    *)
(* the graceful wait.  How long Thread.join(1.0) and the 0.2 s sleep of    *)
(* stop() last is not counted.  The child and the reader run at any speed. *)
(*                                                                         *)
(* At most one child is alive at a time (start() launches one only when    *)
(* the handle is cleared or the child has exited), so the child, its pipe, *)
(* its reader and its queue are those of the latest launch; a reader of an *)
(* earlier launch that still drains its dead child's pipe into the         *)
(* abandoned queue is counted in `orphans`.                                *)
(***************************************************************************)
EXTENDS Integers, Sequences, FiniteSets, TLC

(* ------------------------------ bounds --------------------------------- *)
MaxEvents == 3      \* launches, send() calls and failed system calls in one run
MaxTimeout == 1     \* largest timeout argument, in poll intervals
MaxPieces == 2      \* pieces of output in one response of the child

(* ------------------------- program constants --------------------------- *)
TailWindow == 64        \* self._buffer[-64:]
None == 0               \* the cleared process handle (self.proc = None)

Timeouts == 0..MaxTimeout
StartupDefault == MaxTimeout    \* start()'s default startup_timeout, scaled
Lines == {"a", "b"}
\* The caller's k-th send() submits LineOf(k).
LineOf(k) == IF k % 2 = 1 THEN "a" ELSE "b"
QuitLine == ")quit"

VARIABLES
    pc,           \* where the driver thread is: "idle" or blocked in a call
    cur,          \* the call in progress: [op, line, timeout]
    remain,       \* polls left until the deadline of the current wait
    collected,    \* _wait_for_prompt's local accumulator
    proc,         \* self.proc: None or the number of the child it refers to
    spawned,      \* children launched so far
    buffer,       \* self._buffer, the rolling buffer
    banner_text,  \* self.banner_text
    nsend,        \* send() calls made
    ret,          \* outcome of the last call, as its caller sees it
    alive,        \* the latest child has not exited (poll() is None)
    todo,         \* bytes the child is about to emit
    inbox,        \* lines written to the child's stdin that it has not read
    nprompt,      \* number of the last prompt the child produced
    pipe,         \* bytes the child emitted that the reader has not read
    queue,        \* self._q
    stop_event,   \* self._stop_event.is_set()
    reader,       \* self._reader: "none", "read" (in stream.read(1)), "done"
    orphans,      \* readers of earlier launches that are still running
    faults,       \* failed system calls of stop() so far
    ready,        \* history: start() collected the latest child's first prompt
    bannerBody,   \* history: the banner the latest child was launched with
    emitted,      \* history: every byte the latest child emitted
    written,      \* history: every line written to the latest child's stdin
    enqueued,     \* history: every byte put into the latest queue
    taken         \* history: every byte the driver got from the latest queue

vars == <<pc, cur, remain, collected, proc, spawned, buffer, banner_text,
          nsend, ret, alive, todo, inbox, nprompt, pipe, queue, enqueued, taken, stop_event,
          reader, orphans, faults, ready, bannerBody, emitted, written>>

session == <<proc, spawned, buffer, banner_text>>
world == <<alive, todo, inbox, nprompt, pipe, queue, enqueued, taken, stop_event, reader,
           orphans, ready, bannerBody, emitted, written>>

\* Whether a system call of stop() may succeed (TRUE) or fail (FALSE) now.
Events == spawned + nsend + faults
Outcomes == IF Events < MaxEvents THEN BOOLEAN ELSE {TRUE}
Fault(ok) == faults' = IF ok THEN faults ELSE faults + 1

(* ------------------------------ bytes ---------------------------------- *)
IsSpace(b) == b \in {" ", "\n", "\t", "\r"}
IsDigit(b) == b \in {"0", "1", "2", "3", "4", "5", "6", "7", "8", "9"}

RECURSIVE SkipSpaceBack(_, _)
SkipSpaceBack(s, i) ==
    IF i >= 1 /\ IsSpace(s[i]) THEN SkipSpaceBack(s, i - 1) ELSE i

RECURSIVE SkipDigitBack(_, _)
SkipDigitBack(s, i) ==
    IF i >= 1 /\ IsDigit(s[i]) THEN SkipDigitBack(s, i - 1) ELSE i

\* PROMPT_RE.search(s): s ends with "(" digits ")" spaces "->" spaces.
PromptSearch(s) ==
    LET i == SkipSpaceBack(s, Len(s)) IN
    /\ i >= 2
    /\ s[i] = ">"
    /\ s[i - 1] = "-"
    /\ LET j == SkipSpaceBack(s, i - 2) IN
       /\ j >= 1
       /\ s[j] = ")"
       /\ LET k == SkipDigitBack(s, j - 1) IN
          /\ k < j - 1
          /\ k >= 1
          /\ s[k] = "("

\* Faulty variant: the search window is the first n bytes of the buffer.
LastN_Head(s, n) == IF Len(s) <= n THEN s ELSE SubSeq(s, 1, n)

\* self._buffer[-n:]
LastN(s, n) == IF Len(s) <= n THEN s ELSE SubSeq(s, Len(s) - n + 1, Len(s))

\* bytes.decode(encoding, errors="ignore"): undecodable bytes are dropped.
IsDecodable(b) == b # "\\xff"
Decode(bs) == SelectSeq(bs, IsDecodable)

(* ------------------------------ child ---------------------------------- *)
Digits == <<"1", "2", "3", "4", "5", "6", "7", "8", "9">>
Prompt(n) == <<"(", Digits[n], ")", " ", "-", ">", " ">>
BannerBodies == {<<"W", "\n">>, <<" ", "W", "\n">>}
Out(line) == IF line = "a" THEN <<"A", "\n">> ELSE <<"B", "\n">>
Response(line, n) == Out(line) \o Prompt(n)

\* The child writes line by line: the next write is what it has up to and
\* including the first newline, or all of it when there is none (the prompt).
RECURSIVE SegLen(_)
SegLen(s) == IF s = <<>> THEN 0
             ELSE IF Head(s) = "\n" THEN 1
             ELSE 1 + SegLen(Tail(s))

\* Whether s holds a complete prompt marker, and how many.
PromptEnds(s) == {n \in 1..Len(s) : s[n] = ">" /\ PromptSearch(SubSeq(s, 1, n))}
PromptIn(s) == PromptEnds(s) # {}
NumPrompts(s) == Cardinality(PromptEnds(s))

\* The outcome of a call.  What the caller sees: op, kind ("ok" or the kind
\* of failure), line (the line a failure names), text (the value returned),
\* data (bytes a failure carries).  History, for the properties: noop (the
\* call returned at its first test), found (what _wait_for_prompt returned),
\* wrote (the call wrote its line), childExited (the child exited during the
\* wait), promptEmitted (the child had emitted a prompt marker when the call
\* returned), before (banner_text when the call began), promptsAtWrite (the
\* prompt markers the child had emitted when the call wrote its line),
\* afterTimeout (the call is a send that follows a send that timed out).
NoRet == [op |-> "none", kind |-> "none", line |-> "", text |-> <<>>,
          data |-> <<>>, noop |-> FALSE, found |-> FALSE, wrote |-> FALSE,
          childExited |-> FALSE, promptEmitted |-> FALSE, before |-> <<>>,
          promptsAtWrite |-> 0, afterTimeout |-> FALSE]
NoCall == [op |-> "none", line |-> "", timeout |-> 0]

(* ------------------------------- text ---------------------------------- *)
\* str.lstrip(), str.rstrip(), str.strip()
RECURSIVE LStrip(_)
LStrip(s) == IF s # <<>> /\ IsSpace(Head(s)) THEN LStrip(Tail(s)) ELSE s
RStrip(s) == SubSeq(s, 1, SkipSpaceBack(s, Len(s)))
Strip(s) == LStrip(RStrip(s))

\* The first position from i on where s holds a line end, or Len(s) + 1.
IsLineEnd(c) == c \in {"\n", "\r"}
NextLineEnd(s, i) ==
    CHOOSE j \in i..(Len(s) + 1) :
        /\ j = Len(s) + 1 \/ IsLineEnd(s[j])
        /\ \A k \in i..(j - 1) : ~IsLineEnd(s[k])

\* str.splitlines(): "\n", "\r\n" and "\r" end a line; no empty last line.
RECURSIVE SplitFrom(_, _)
SplitFrom(s, i) ==
    IF i > Len(s) THEN <<>>
    ELSE LET j == NextLineEnd(s, i)
             line == SubSeq(s, i, j - 1)
         IN IF j > Len(s) THEN <<line>>
            ELSE IF s[j] = "\r" /\ j < Len(s) /\ s[j + 1] = "\n"
                 THEN <<line>> \o SplitFrom(s, j + 2)
            ELSE <<line>> \o SplitFrom(s, j + 1)
SplitLines(s) == SplitFrom(s, 1)

\* "\n".join(lines)
RECURSIVE JoinLines(_)
JoinLines(ls) ==
    IF ls = <<>> THEN <<>>
    ELSE IF Len(ls) = 1 THEN ls[1]
    ELSE ls[1] \o <<"\n">> \o JoinLines(Tail(ls))

RECURSIVE SkipSpaceFwd(_, _)
SkipSpaceFwd(s, i) ==
    IF i <= Len(s) /\ IsSpace(s[i]) THEN SkipSpaceFwd(s, i + 1) ELSE i

RECURSIVE SkipDigitFwd(_, _)
SkipDigitFwd(s, i) ==
    IF i <= Len(s) /\ IsDigit(s[i]) THEN SkipDigitFwd(s, i + 1) ELSE i

\* The last newline of s in positions e..f-1, or 0.
RECURSIVE LastNewline(_, _, _)
LastNewline(s, e, f) ==
    IF f <= e THEN 0
    ELSE IF s[f - 1] = "\n" THEN f - 1
    ELSE LastNewline(s, e, f - 1)

\* Where a match of \(\d+\)\s*->\s*$ (re.MULTILINE) that begins at p ends
\* (the position after it), or 0 when none begins there: $ is the end of the
\* text or the place before a newline, and the last \s* is greedy.
MatchEnd(s, p) ==
    IF p > Len(s) \/ s[p] # "(" THEN 0
    ELSE LET d == SkipDigitFwd(s, p + 1) IN
         IF d = p + 1 \/ d > Len(s) \/ s[d] # ")" THEN 0
         ELSE LET a == SkipSpaceFwd(s, d + 1) IN
              IF a + 1 > Len(s) \/ s[a] # "-" \/ s[a + 1] # ">" THEN 0
              ELSE LET e == a + 2
                       f == SkipSpaceFwd(s, e)
                   IN IF f > Len(s) THEN f ELSE LastNewline(s, e, f)

\* The first position from i on where a match begins, or Len(s) + 1.
NextMatch(s, i) ==
    CHOOSE p \in i..(Len(s) + 1) :
        /\ p = Len(s) + 1 \/ MatchEnd(s, p) > 0
        /\ \A k \in i..(p - 1) : MatchEnd(s, k) = 0

\* re.sub(r"\(\d+\)\s*->\s*$", "", text, flags=re.MULTILINE), from position i on
RECURSIVE SubPrompts(_, _)
SubPrompts(s, i) ==
    IF i > Len(s) THEN <<>>
    ELSE LET p == NextMatch(s, i) IN
         IF p > Len(s) THEN SubSeq(s, i, Len(s))
         ELSE SubSeq(s, i, p - 1) \o SubPrompts(s, MatchEnd(s, p))

\* request(): text = re.sub(...).rstrip()
StripPrompt(text) == RStrip(SubPrompts(text, 1))

\* Whether s begins with the characters lit.
StartsWith(s, lit) == Len(s) >= Len(lit) /\ SubSeq(s, 1, Len(lit)) = lit

LitCheckingForForeignRoutines == <<"C", "h", "e", "c", "k", "i", "n", "g",
    " ", "f", "o", "r", " ", "f", "o", "r", "e", "i", "g", "n", " ", "r",
    "o", "u", "t", "i", "n", "e", "s">>
LitFricas == <<"F", "R", "I", "C", "A", "S", "=">>
LitSpadLib == <<"s", "p", "a", "d", "-", "l", "i", "b", "=">>
LitForeignRoutinesFound == <<"f", "o", "r", "e", "i", "g", "n", " ", "r",
    "o", "u", "t", "i", "n", "e", "s", " ", "f", "o", "u", "n", "d">>
LitOpenserverResult == <<"o", "p", "e", "n", "S", "e", "r", "v", "e", "r",
    " ", "r", "e", "s", "u", "l", "t">>
LitFricasComputerAlgebraSystem == <<"F", "r", "i", "C", "A", "S", " ", "C",
    "o", "m", "p", "u", "t", "e", "r", " ", "A", "l", "g", "e", "b", "r",
    "a", " ", "S", "y", "s", "t", "e", "m">>
LitVersion == <<"V", "e", "r", "s", "i", "o", "n", ":">>
LitTimestamp == <<"T", "i", "m", "e", "s", "t", "a", "m", "p", ":">>
LitIssueCopyright == <<"I", "s", "s", "u", "e", " ", ")", "c", "o", "p", "y",
    "r", "i", "g", "h", "t">>
LitIssueSummary == <<"I", "s", "s", "u", "e", " ", ")", "s", "u", "m", "m",
    "a", "r", "y">>
LitIssueQuit == <<"I", "s", "s", "u", "e", " ", ")", "q", "u", "i", "t">>

\* BANNER_STRIP_PATTERNS but the separator rule: lead (the pattern begins with
\* \s*), lit (its literal text), rest (what may follow: "end" for $, "any"
\* for .*$, "ws" for \s*$).
BannerRules == <<
    [lead |-> FALSE, lit |-> LitCheckingForForeignRoutines, rest |-> "end"],
    [lead |-> FALSE, lit |-> LitFricas, rest |-> "any"],
    [lead |-> FALSE, lit |-> LitSpadLib, rest |-> "any"],
    [lead |-> FALSE, lit |-> LitForeignRoutinesFound, rest |-> "end"],
    [lead |-> FALSE, lit |-> LitOpenserverResult, rest |-> "any"],
    [lead |-> TRUE, lit |-> LitFricasComputerAlgebraSystem, rest |-> "ws"],
    [lead |-> TRUE, lit |-> LitVersion, rest |-> "any"],
    [lead |-> TRUE, lit |-> LitTimestamp, rest |-> "any"],
    [lead |-> TRUE, lit |-> LitIssueCopyright, rest |-> "any"],
    [lead |-> TRUE, lit |-> LitIssueSummary, rest |-> "any"],
    [lead |-> TRUE, lit |-> LitIssueQuit, rest |-> "any"]>>

\* rx.match(ln) for one rule.  A backtracking \s* may give up whitespace only
\* to a literal that begins with whitespace, and none does.
RuleMatches(r, ln) ==
    LET body == IF r.lead THEN LStrip(ln) ELSE ln IN
    /\ StartsWith(body, r.lit)
    /\ LET after == SubSeq(body, Len(r.lit) + 1, Len(body)) IN
       CASE r.rest = "end" -> after = <<>>
         [] r.rest = "ws" -> LStrip(after) = <<>>
         [] OTHER -> TRUE

\* rx.match(ln) for ^\s*-{3,}\s*$
IsDash(c) == c = "-"
SeparatorMatches(ln) ==
    LET body == Strip(ln) IN
    Len(body) >= 3 /\ SelectSeq(body, IsDash) = body

\* any(rx.match(ln) for rx in BANNER_RE_LIST)
BannerMatches(ln) ==
    \/ \E i \in 1..Len(BannerRules) : RuleMatches(BannerRules[i], ln)
    \/ SeparatorMatches(ln)

\* _clean_text_block: the lines kept, each rstripped
RECURSIVE CleanLines(_)
CleanLines(ls) ==
    IF ls = <<>> THEN <<>>
    ELSE IF BannerMatches(Head(ls)) \/ Strip(Head(ls)) = <<>>
         THEN CleanLines(Tail(ls))
    ELSE <<RStrip(Head(ls))>> \o CleanLines(Tail(ls))

CleanTextBlock(text) == Strip(JoinLines(CleanLines(SplitLines(text))))

\* Faulty variant: the echo is looked for in the first line.
EchoDropped_First(lines, line) ==
    IF lines # <<>> /\ Strip(lines[1]) = Strip(line)
    THEN SubSeq(lines, 2, Len(lines))
    ELSE lines

\* request(): if lines and lines[-1].strip() == line.strip(): lines = lines[:-1]
EchoDropped(lines, line) ==
    IF lines # <<>> /\ Strip(lines[Len(lines)]) = Strip(line)
    THEN SubSeq(lines, 1, Len(lines) - 1)
    ELSE lines

\* request(line, raw) from the text send() returned on.
Request(text, line, raw) ==
    LET stripped == StripPrompt(text) IN
    IF raw THEN stripped
    ELSE Strip(JoinLines(EchoDropped(SplitLines(CleanTextBlock(stripped)), line)))


(* ------------------------- faulty variants ----------------------------- *)
\* Variants of the driver's definitions that the properties must tell apart
\* from the real ones.
\* send() that hands back the block collected so far when the wait expired.
SendResult_NoTimeout(ok, block, line) ==
    [NoRet EXCEPT !.op = "send", !.kind = "ok", !.text = Decode(block)]

\* start() whose re-entry test is inverted: poll() is not None.
StartReentry_Inverted == proc # None /\ ~alive

\* _wait_for_prompt that polls without a deadline: an empty poll costs no time.
WaitEmpty_NoDeadline ==
    /\ pc \in {"start_wait", "send_wait"}
    /\ remain > 0
    /\ queue = <<>>
    /\ UNCHANGED vars

\* stop() that leaves the handle as it is.
HandleAfterStop_Kept == proc

\* send() that launches a child whether or not one is running.
NeedsStart_Always == TRUE

Init ==
    /\ pc = "idle"
    /\ cur = NoCall
    /\ remain = 0
    /\ collected = <<>>
    /\ proc = None
    /\ spawned = 0
    /\ buffer = <<>>
    /\ banner_text = <<>>
    /\ nsend = 0
    /\ ret = NoRet
    /\ alive = FALSE
    /\ todo = <<>>
    /\ inbox = <<>>
    /\ nprompt = 0
    /\ pipe = <<>>
    /\ queue = <<>>
    /\ stop_event = FALSE
    /\ reader = "none"
    /\ orphans = 0
    /\ faults = 0
    /\ ready = FALSE
    /\ bannerBody = <<>>
    /\ emitted = <<>>
    /\ written = <<>>
    /\ enqueued = <<>>
    /\ taken = <<>>

\* The child writes the next line (or the prompt) of its output.
ChildEmit ==
    /\ alive
    /\ todo # <<>>
    /\ LET n == SegLen(todo) IN
       /\ pipe' = pipe \o SubSeq(todo, 1, n)
       /\ emitted' = emitted \o SubSeq(todo, 1, n)
       /\ todo' = SubSeq(todo, n + 1, Len(todo))
    /\ UNCHANGED <<pc, cur, remain, collected, session, faults, nsend, ret,
                   alive, inbox, nprompt, queue, enqueued, taken, stop_event, reader, orphans,
                   ready, bannerBody, written>>

\* The child reads one line: it answers a command with its output and the
\* next prompt; on )quit it exits, or ignores the line.
ChildRead ==
    /\ alive
    /\ todo = <<>>
    /\ inbox # <<>>
    /\ IF Head(inbox) = QuitLine
       THEN /\ \E obeys \in BOOLEAN :
                 /\ alive' = ~obeys
                 /\ inbox' = IF obeys THEN <<>> ELSE Tail(inbox)
                 /\ ret' = IF obeys /\ pc = "send_wait"
                           THEN [ret EXCEPT !.childExited = TRUE] ELSE ret
            /\ UNCHANGED <<todo, nprompt>>
       ELSE /\ todo' = Response(Head(inbox), nprompt + 1)
            /\ nprompt' = nprompt + 1
            /\ inbox' = Tail(inbox)
            /\ UNCHANGED <<alive, ret>>
    /\ UNCHANGED <<pc, cur, remain, collected, session, faults, nsend,
                   pipe, queue, enqueued, taken, stop_event, reader, orphans, ready, bannerBody,
                   emitted, written>>

\* The child exits on its own (crash, or in answer to a signal); what it had
\* not yet written or read is gone.
ChildExit ==
    /\ alive
    /\ alive' = FALSE
    /\ todo' = <<>>
    /\ inbox' = <<>>
    /\ ret' = IF pc = "send_wait" THEN [ret EXCEPT !.childExited = TRUE] ELSE ret
    /\ UNCHANGED <<pc, cur, remain, collected, session, faults, nsend, nprompt,
                   pipe, queue, enqueued, taken, stop_event, reader, orphans, ready, bannerBody,
                   emitted, written>>

(* ------------------------------ reader --------------------------------- *)
\* Faulty variant: a reader that puts every byte twice.
ReaderRead_Doubled ==
    /\ reader = "read"
    /\ pipe # <<>>
    /\ queue' = queue \o pipe \o pipe
    /\ enqueued' = enqueued \o pipe \o pipe
    /\ UNCHANGED taken
    /\ pipe' = <<>>
    /\ reader' = IF stop_event THEN "done" ELSE "read"
    /\ UNCHANGED <<pc, cur, remain, collected, session, faults, nsend, ret,
                   alive, todo, inbox, nprompt, stop_event, orphans,
                   ready, bannerBody, emitted, written>>

\* _StreamReader.run: read(1) returns a byte, q.put, the loop test on
\* stop_event; a step is a burst of turns that forwards, byte by byte and in
\* order, what the pipe holds (the stop event is seen at the end of a burst).
ReaderRead ==
    /\ reader = "read"
    /\ pipe # <<>>
    /\ queue' = queue \o pipe
    /\ enqueued' = enqueued \o pipe
    /\ UNCHANGED taken
    /\ pipe' = <<>>
    /\ reader' = IF stop_event THEN "done" ELSE "read"
    /\ UNCHANGED <<pc, cur, remain, collected, session, faults, nsend, ret,
                   alive, todo, inbox, nprompt, stop_event, orphans,
                   ready, bannerBody, emitted, written>>

\* read(1) returns b"" at end of stream: if not chunk: break
ReaderEOF ==
    /\ reader = "read"
    /\ pipe = <<>>
    /\ ~alive
    /\ reader' = "done"
    /\ UNCHANGED <<pc, cur, remain, collected, session, faults, nsend, ret,
                   alive, todo, inbox, nprompt, pipe, queue, enqueued, taken, stop_event,
                   orphans, ready, bannerBody, emitted, written>>

\* A reader of an earlier launch reaches the end of its dead child's stream.
OrphanEnd ==
    /\ orphans > 0
    /\ orphans' = orphans - 1
    /\ UNCHANGED <<pc, cur, remain, collected, session, faults, nsend, ret,
                   alive, todo, inbox, nprompt, pipe, queue, enqueued, taken, stop_event,
                   reader, ready, bannerBody, emitted, written>>

(* ------------------------------ driver --------------------------------- *)
Pending(op) ==
    [NoRet EXCEPT !.op = op, !.kind = "pending", !.before = banner_text,
                  !.afterTimeout = /\ op = "send"
                                   /\ ret.op = "send"
                                   /\ ret.kind = "CommandTimeout"]

\* The outcome r of the call in progress, with the history fields filled in.
Stamp(r, found) ==
    [r EXCEPT !.found = found, !.wrote = ret.wrote,
              !.childExited = ret.childExited,
              !.promptEmitted = PromptIn(emitted), !.before = ret.before,
              !.promptsAtWrite = ret.promptsAtWrite,
              !.afterTimeout = ret.afterTimeout]

\* start(): if self.proc and self.proc.poll() is None: return
StartReentry == proc # None /\ alive

\* send(): if not self.proc or self.proc.poll() is not None: self.start()
NeedsStart == proc = None \/ ~alive

\* subprocess.Popen(...), queue.Queue(), threading.Event(), _StreamReader(...).start()
Spawn(body) ==
    /\ spawned' = spawned + 1
    /\ proc' = spawned + 1
    /\ alive' = TRUE
    /\ todo' = body \o Prompt(1)
    /\ inbox' = <<>>
    /\ nprompt' = 1
    /\ pipe' = <<>>
    /\ queue' = <<>>
    /\ enqueued' = <<>>
    /\ taken' = <<>>
    /\ stop_event' = FALSE
    /\ reader' = "read"
    /\ orphans' = IF reader = "read" THEN orphans + 1 ELSE orphans
    /\ ready' = FALSE
    /\ bannerBody' = body
    /\ emitted' = <<>>
    /\ written' = <<>>

\* _write_line(line) to a child that reads its stdin
WriteLine(line) ==
    /\ inbox' = Append(inbox, line)
    /\ written' = Append(written, line)

\* What start() hands its caller once _wait_for_prompt has returned (ok, banner).
StartResult(op, ok) ==
    IF ok THEN [NoRet EXCEPT !.op = op, !.kind = "ok"]
    ELSE [NoRet EXCEPT !.op = op, !.kind = "StartupTimeout"]

\* self.banner_text = banner.decode(self.encoding, errors="ignore")
BannerOf(banner) == Decode(banner)

\* What send(line) hands its caller once _wait_for_prompt has returned (ok, block):
\* the decoded block, or TimeoutError(f"... after sending: {line}").
SendResult(ok, block, line) ==
    IF ok THEN [NoRet EXCEPT !.op = "send", !.kind = "ok", !.text = Decode(block)]
    ELSE [NoRet EXCEPT !.op = "send", !.kind = "CommandTimeout", !.line = line]

\* start(startup_timeout) called by the session's user.
CallStart(T) ==
    /\ pc = "idle"
    /\ collected' = <<>>
    /\ IF StartReentry
       THEN /\ ret' = [NoRet EXCEPT !.op = "start", !.kind = "ok", !.noop = TRUE,
                                    !.promptEmitted = PromptIn(emitted),
                                    !.before = banner_text]
            /\ UNCHANGED <<pc, cur, remain, session, faults, nsend, world>>
       ELSE /\ Events < MaxEvents
            /\ \E body \in BannerBodies : Spawn(body)
            /\ pc' = "start_wait"
            /\ cur' = [op |-> "start", line |-> "", timeout |-> T]
            /\ remain' = T
            /\ ret' = Pending("start")
            /\ UNCHANGED <<buffer, banner_text, faults, nsend>>

\* Popen raises (the executable cannot be launched): nothing is assigned.
StartLaunchFail ==
    /\ pc = "idle"
    /\ ~StartReentry
    /\ ret' = [NoRet EXCEPT !.op = "start", !.kind = "LaunchFailure"]
    /\ collected' = <<>>
    /\ UNCHANGED <<pc, cur, remain, session, faults, nsend, world>>

\* send(line, timeout) up to its first blocking point.
SendLine(line, T) ==
    /\ pc = "idle"
    /\ Events < MaxEvents
    /\ nsend' = nsend + 1
    /\ cur' = [op |-> "send", line |-> line, timeout |-> T]
    /\ collected' = <<>>
    /\ IF NeedsStart
       THEN /\ Events < MaxEvents
            /\ ret' = Pending("send")
            /\ \E body \in BannerBodies : Spawn(body)
            /\ pc' = "start_wait"
            /\ remain' = StartupDefault
            /\ UNCHANGED <<buffer, banner_text, faults>>
       ELSE /\ WriteLine(line)
            /\ ret' = [Pending("send") EXCEPT !.wrote = TRUE,
                                              !.promptsAtWrite = NumPrompts(emitted)]
            /\ pc' = "send_wait"
            /\ remain' = T
            /\ UNCHANGED <<session, faults, alive, todo, nprompt, pipe, queue, enqueued, taken,
                           stop_event, reader, orphans, ready, bannerBody, emitted>>

\* send(line, timeout) called by the session's user with their next line.
CallSend(line, T) ==
    /\ line = LineOf(nsend + 1)
    /\ SendLine(line, T)

\* _wait_for_prompt: b = self._q.get(timeout=0.05) returns a byte.
WaitGet ==
    /\ pc \in {"start_wait", "send_wait"}
    /\ remain > 0
    /\ queue # <<>>
    /\ LET b == Head(queue)
           coll == Append(collected, b)
           buf == Append(buffer, b)
           found == PromptSearch(LastN(buf, TailWindow))
       IN
       /\ queue' = Tail(queue)
       /\ taken' = Append(taken, b)
       /\ UNCHANGED enqueued
       /\ IF ~found
          THEN /\ collected' = coll
               /\ buffer' = buf
               /\ UNCHANGED <<pc, cur, remain, proc, spawned, banner_text,
                              ret, inbox, written, ready>>
          ELSE IF pc = "send_wait"
          THEN \* send returns the block
               /\ collected' = coll
               /\ buffer' = buf
               /\ pc' = "idle"
               /\ cur' = NoCall
               /\ remain' = 0
               /\ ret' = Stamp(SendResult(TRUE, coll, cur.line), TRUE)
               /\ UNCHANGED <<proc, spawned, banner_text, inbox, written,
                              ready>>
          ELSE \* start stores the banner and clears the rolling buffer
               /\ banner_text' = BannerOf(coll)
               /\ buffer' = <<>>
               /\ ready' = PromptIn(coll)
               /\ UNCHANGED <<proc, spawned>>
               /\ IF cur.op = "start"
                  THEN /\ pc' = "idle"
                       /\ cur' = NoCall
                       /\ remain' = 0
                       /\ collected' = coll
                       /\ ret' = Stamp(StartResult("start", TRUE), TRUE)
                       /\ UNCHANGED <<inbox, written>>
                  ELSE IF alive
                  THEN \* send goes on: write the line, wait for the prompt
                       /\ WriteLine(cur.line)
                       /\ pc' = "send_wait"
                       /\ remain' = cur.timeout
                       /\ collected' = <<>>
                       /\ ret' = [ret EXCEPT !.wrote = TRUE,
                                              !.promptsAtWrite = NumPrompts(emitted)]
                       /\ UNCHANGED cur
                  ELSE \* the write to a dead child's stdin raises
                       /\ pc' = "idle"
                       /\ cur' = NoCall
                       /\ remain' = 0
                       /\ collected' = coll
                       /\ ret' = Stamp([NoRet EXCEPT !.op = "send",
                                                     !.kind = "WriteFailure"],
                                        TRUE)
                       /\ UNCHANGED <<inbox, written>>
    /\ UNCHANGED <<faults, nsend, alive, todo, nprompt, pipe, stop_event,
                   reader, orphans, bannerBody, emitted>>

\* _wait_for_prompt: q.get times out after one poll interval (queue.Empty).
WaitEmpty ==
    /\ pc \in {"start_wait", "send_wait"}
    /\ remain > 0
    /\ queue = <<>>
    /\ remain' = remain - 1
    /\ UNCHANGED <<pc, cur, collected, session, faults, nsend, ret, world>>

\* _wait_for_prompt: the deadline has passed; start or send raises TimeoutError.
WaitExpire ==
    /\ pc \in {"start_wait", "send_wait"}
    /\ remain = 0
    /\ pc' = "idle"
    /\ cur' = NoCall
    /\ ret' = IF pc = "start_wait"
              THEN Stamp(StartResult(cur.op, FALSE), FALSE)
              ELSE Stamp(SendResult(FALSE, collected, cur.line), FALSE)
    /\ UNCHANGED <<remain, collected, session, faults, nsend, world>>

(* ------------------------------- stop ---------------------------------- *)
StopOk == [NoRet EXCEPT !.op = "stop", !.kind = "ok"]
StopNoop == [StopOk EXCEPT !.noop = TRUE]
StopRaised == [NoRet EXCEPT !.op = "stop", !.kind = "raised"]

\* stop(): if not self.proc: return
StopNothing == proc = None

\* The handle stop() leaves behind when its last block completes: self.proc = None
HandleAfterStop == None

\* self.proc.kill(), then self.proc = None; when kill raises the handle stays.
Kill(killok) ==
    /\ Fault(killok)
    /\ IF killok
       THEN /\ alive' = FALSE
            /\ todo' = <<>>
            /\ inbox' = <<>>
            /\ proc' = HandleAfterStop
            /\ ret' = StopOk
       ELSE /\ ret' = StopRaised
            /\ UNCHANGED <<proc, alive, todo, inbox>>

\* The innermost finally of stop(): if the child is still alive, signal it
\* (Windows) and sleep, then kill it; then clear the handle.  ok: whether the
\* system call made here (send_signal on Windows, kill elsewhere) succeeds;
\* when it raises, the rest of the block is skipped.  nt: os.name == "nt".
KillPhase(nt, ok) ==
    IF ~alive
    THEN /\ proc' = HandleAfterStop
         /\ pc' = "idle"
         /\ ret' = StopOk
         /\ UNCHANGED <<alive, todo, inbox, faults>>
    ELSE IF nt
    THEN /\ Fault(ok)
         /\ pc' = IF ok THEN "stop_sleep" ELSE "idle"
         /\ ret' = IF ok THEN Pending("stop") ELSE StopRaised
         /\ UNCHANGED <<proc, alive, todo, inbox>>
    ELSE /\ pc' = "idle"
         /\ Kill(ok)

\* Faulty variant: the outer finally without self._stop_event.set().
StopFinally_NoSignal(nt, ok) ==
    /\ UNCHANGED stop_event
    /\ remain' = 0
    /\ IF reader = "read"
       THEN /\ pc' = "stop_join"
            /\ ret' = Pending("stop")
            /\ UNCHANGED <<proc, alive, todo, inbox, faults>>
       ELSE KillPhase(nt, ok)

\* The outer finally of stop(): set the reader's stop event, join the reader
\* if it is alive, then the kill phase.
StopFinally(nt, ok) ==
    /\ stop_event' = TRUE
    /\ remain' = 0
    /\ IF reader = "read"
       THEN /\ pc' = "stop_join"
            /\ ret' = Pending("stop")
            /\ UNCHANGED <<proc, alive, todo, inbox, faults>>
       ELSE KillPhase(nt, ok)

\* stop(graceful_timeout) up to its first blocking point.  wok: whether the
\* write of )quit succeeds (its failure is caught and ignored).
CallStop(G, wok) ==
    /\ pc = "idle"
    /\ collected' = <<>>
    /\ IF StopNothing
       THEN /\ ret' = StopNoop
            /\ UNCHANGED <<pc, cur, remain, session, faults, nsend, world>>
       ELSE IF alive
       THEN /\ Fault(wok)
            /\ IF wok THEN WriteLine(QuitLine) ELSE UNCHANGED <<inbox, written>>
            /\ pc' = "stop_grace"
            /\ remain' = G
            /\ ret' = Pending("stop")
            /\ UNCHANGED <<cur, session, nsend, alive, todo, nprompt,
                           pipe, queue, enqueued, taken, stop_event, reader, orphans,
                           ready, bannerBody, emitted>>
       ELSE /\ StopFinally(FALSE, TRUE)
            /\ UNCHANGED <<cur, spawned, buffer, banner_text, nsend,
                           nprompt, pipe, queue, enqueued, taken, reader, orphans, ready, bannerBody,
                           emitted, written>>

\* while time.time() - t0 < graceful_timeout: ... time.sleep(0.05)
StopGraceSleep ==
    /\ pc = "stop_grace"
    /\ remain > 0
    /\ alive
    /\ remain' = remain - 1
    /\ UNCHANGED <<pc, cur, collected, session, faults, nsend, ret, world>>

\* The graceful wait ends (child exited, or time is up): the finally blocks run.
StopGraceEnd(nt, ok) ==
    /\ pc = "stop_grace"
    /\ remain = 0 \/ ~alive
    /\ ok \/ (alive /\ reader # "read")
    /\ StopFinally(nt, ok)
    /\ UNCHANGED <<cur, collected, spawned, buffer, banner_text, nsend,
                   nprompt, pipe, queue, enqueued, taken, reader, orphans, ready, bannerBody, emitted,
                   written>>

\* self._reader.join(timeout=1.0) returns, the reader having ended or the
\* second having passed: the kill phase runs.  The second passes with the
\* reader still running only when the reader is blocked in read(1) on a live,
\* silent child: a reader with a byte or the end of the stream to read is not
\* kept from reading it for a whole second.
StopJoinEnd(nt, ok) ==
    /\ pc = "stop_join"
    /\ reader = "done" \/ (alive /\ pipe = <<>>)
    /\ ok \/ alive
    /\ KillPhase(nt, ok)
    /\ UNCHANGED <<cur, remain, collected, spawned, buffer, banner_text,
                   nsend, nprompt, pipe, queue, enqueued, taken, stop_event, reader, orphans,
                   ready, bannerBody, emitted, written>>

\* time.sleep(0.2) after CTRL_BREAK_EVENT is over: self.proc.kill(); self.proc = None
StopSleepEnd(killok) ==
    /\ pc = "stop_sleep"
    /\ killok \/ alive
    /\ pc' = "idle"
    /\ Kill(killok)
    /\ UNCHANGED <<cur, remain, collected, spawned, buffer, banner_text,
                   nsend, nprompt, pipe, queue, enqueued, taken, stop_event, reader, orphans,
                   ready, bannerBody, emitted, written>>

(* ------------------------------- main ---------------------------------- *)
\* The exceptions a failure of a session call reaches main() as: Popen
\* raises an OSError (FileNotFoundError, PermissionError or another one) or
\* start() raises RuntimeError (stdio not available); both timeouts are the
\* builtin TimeoutError; a failed write is an OSError (BrokenPipeError).
ExceptionsOf(kind) ==
    CASE kind = "LaunchFailure" ->
            {"FileNotFoundError", "PermissionError", "OSError", "RuntimeError"}
      [] kind = "StartupTimeout" -> {"TimeoutError"}
      [] kind = "CommandTimeout" -> {"TimeoutError"}
      [] kind = "Interrupted" -> {"KeyboardInterrupt"}
      [] kind = "WriteFailure" -> {"OSError"}
      [] OTHER -> {}

\* main(): the except clauses, in their order.
ExitCode(exc) ==
    CASE exc = "FileNotFoundError" -> 2
      [] exc = "TimeoutError" -> 124
      [] exc = "KeyboardInterrupt" -> 130
      [] OTHER -> 1

\* The codes main() can return when a session call fails with kind.
ExitCodes(kind) == {ExitCode(exc) : exc \in ExceptionsOf(kind)}

(* --------------------------- specification ----------------------------- *)
Next ==
    \/ \E T \in Timeouts : CallStart(T)
    \/ StartLaunchFail
    \/ \E line \in Lines, T \in Timeouts : CallSend(line, T)
    \/ WaitGet
    \/ WaitEmpty
    \/ WaitExpire
    \/ \E G \in Timeouts, wok \in Outcomes : CallStop(G, wok)
    \/ StopGraceSleep
    \/ \E nt \in BOOLEAN, ok \in Outcomes : StopGraceEnd(nt, ok)
    \/ \E nt \in BOOLEAN, ok \in Outcomes : StopJoinEnd(nt, ok)
    \/ \E killok \in Outcomes : StopSleepEnd(killok)
    \/ ChildEmit
    \/ ChildRead
    \/ ChildExit
    \/ ReaderRead
    \/ ReaderEOF
    \/ OrphanEnd

Spec == Init /\ [][Next]_vars

\* A session that is started once, sent lines while its child runs, and
\* never stopped.
SendNext ==
    \/ \E T \in Timeouts : spawned = 0 /\ CallStart(T)
    \/ \E line \in Lines, T \in Timeouts : ~NeedsStart /\ CallSend(line, T)
    \/ WaitGet
    \/ WaitEmpty
    \/ WaitExpire
    \/ ChildEmit
    \/ ChildRead
    \/ ChildExit
    \/ ReaderRead
    \/ ReaderEOF

\* The driver thread runs: a wait that can take a byte, time out one poll or
\* expire does so.  Nothing is assumed of the child or of the reader.
FairSpec ==
    /\ Init
    /\ [][SendNext]_vars
    /\ WF_vars(WaitGet)
    /\ WF_vars(WaitEmpty)
    /\ WF_vars(WaitExpire)

(* ------------------------------- repl ---------------------------------- *)
\* The lines the user types at the prompt of interactive_repl.
ReplLines == {"a", QuitLine}

\* The line interactive_repl handed to its last request, when that request
\* got as far as writing it.
LastWritten == IF written = <<>> THEN "" ELSE written[Len(written)]

\* interactive_repl: line = input(...); out = session.request(line, ...), up
\* to the first blocking point of the request.  The loop is entered after
\* main()'s session.start() has returned and goes on after a request that
\* returned for a line that is not a quit command.
ReplRequest(line, T) ==
    /\ ret.kind = "ok"
    /\ ret.op \in {"start", "send"}
    /\ ret.op = "send" => LastWritten # QuitLine
    /\ SendLine(line, T)

\* interactive_repl: the request for a quit command has returned:
\* if line.strip().lower() in {")quit", ...}: break, then return 0.
ReplBreak ==
    /\ pc = "idle"
    /\ ret.op = "send"
    /\ ret.kind = "ok"
    /\ LastWritten = QuitLine
    /\ ret' = [NoRet EXCEPT !.op = "repl", !.kind = "ok", !.line = QuitLine,
                            !.childExited = ret.childExited]
    /\ UNCHANGED <<pc, cur, remain, collected, session, faults, nsend, world>>

\* interactive_repl: the request raised; only KeyboardInterrupt is caught,
\* so the exception leaves interactive_repl.
ReplRaise ==
    /\ pc = "idle"
    /\ ret.op = "send"
    /\ ret.kind # "ok"
    /\ ret' = [NoRet EXCEPT !.op = "repl", !.kind = ret.kind, !.line = ret.line,
                            !.childExited = ret.childExited]
    /\ UNCHANGED <<pc, cur, remain, collected, session, faults, nsend, world>>

\* main() with the repl subcommand: session.start(), then interactive_repl.
ReplNext ==
    \/ \E T \in Timeouts : spawned = 0 /\ CallStart(T)
    \/ \E line \in ReplLines, T \in Timeouts : ReplRequest(line, T)
    \/ ReplBreak
    \/ ReplRaise
    \/ WaitGet
    \/ WaitEmpty
    \/ WaitExpire
    \/ ChildEmit
    \/ ChildRead
    \/ ChildExit
    \/ ReaderRead
    \/ ReaderEOF

ReplSpec == Init /\ [][ReplNext]_vars

(* ------------------------------ request -------------------------------- *)
\* What the child can print before the prompt that ends its response.
PieceAnswer == <<"4", "\n">>
PieceIndented == <<" ", " ", " ", "4", "\n">>
PieceBlank == <<"\n">>
PieceEcho == <<"2", "+", "2", "\n">>
PieceEchoIndented == <<" ", " ", "2", "+", "2", "\n">>
PieceVersion == <<"V", "e", "r", "s", "i", "o", "n", ":", " ", "1", "\n">>
PieceEnvIndented == <<" ", "F", "R", "I", "C", "A", "S", "=", "x", "\n">>
PiecePromptLike == <<"s", "e", "e", " ", "(", "3", ")", " ", "-", ">", "\n">>
PieceUndecodable == <<"(", "7", ")", " ", "-", "\\xff", ">">>
\* a line of output longer than the window of the prompt search
PieceLong == [i \in 1..(TailWindow + 1) |-> "x"] \o <<"\n">>
TextPieces ==
    {PieceAnswer,
     PieceIndented,
     PieceBlank,
     PieceEcho,
     PieceEchoIndented,
     PieceVersion,
     PieceEnvIndented,
     PiecePromptLike,
     PieceUndecodable,
     PieceLong}
Cmd2Plus2 == <<"2", "+", "2">>
Cmd4 == <<"4">>
TextCmds == {Cmd2Plus2, Cmd4}

\* The lines the caller hands to request().
RawModes == BOOLEAN

\* The outputs of the child for one line: up to MaxPieces pieces.
RECURSIVE Bodies(_)
Bodies(n) ==
    IF n = 0 THEN {<<>>}
    ELSE Bodies(n - 1) \cup {b \o p : b \in Bodies(n - 1), p \in TextPieces}

\* The banner of the child that the session of TextInit launched.
TextBannerBody == <<"W", "\n">>

\* How many bytes of q the loop of _wait_for_prompt dequeues until the
\* search on the last TailWindow bytes of the rolling buffer succeeds, the
\* rolling buffer holding buf when the wait begins; 0 when it never does.
SendBlockLen(buf, q) ==
    LET ns == {n \in 1..Len(q) :
                  PromptSearch(LastN(buf \o SubSeq(q, 1, n), TailWindow))}
    IN IF ns = {} THEN 0 ELSE CHOOSE n \in ns : \A m \in ns : n <= m

\* A Running session in request(line, raw): start() has returned on the
\* first prompt of the child (the space that follows the marker is still in
\* the queue), send() has written the line, the child has answered with body
\* and its second prompt and the reader has forwarded all of it.
TextInit ==
    \E line \in TextCmds, raw \in RawModes, body \in Bodies(MaxPieces) :
        /\ pc = "send_wait"
        /\ cur = [op |-> "request", line |-> line, timeout |-> MaxTimeout,
                  raw |-> raw]
        /\ remain = MaxTimeout
        /\ collected = <<>>
        /\ proc = 1
        /\ spawned = 1
        /\ buffer = <<>>
        /\ banner_text = Decode(TextBannerBody \o <<"(", "1", ")", " ", "-", ">">>)
        /\ nsend = 1
        /\ ret = [NoRet EXCEPT !.op = "request", !.kind = "pending",
                               !.wrote = TRUE, !.promptsAtWrite = 1,
                               !.before = Decode(TextBannerBody \o <<"(", "1", ")", " ", "-", ">">>)]
        /\ alive = TRUE
        /\ todo = <<>>
        /\ inbox = <<>>
        /\ nprompt = 2
        /\ pipe = <<>>
        /\ queue = <<" ">> \o body \o Prompt(2)
        /\ stop_event = FALSE
        /\ reader = "read"
        /\ orphans = 0
        /\ faults = 0
        /\ ready = TRUE
        /\ bannerBody = TextBannerBody
        /\ emitted = TextBannerBody \o Prompt(1) \o body \o Prompt(2)
        /\ written = <<line>>
        /\ enqueued = TextBannerBody \o Prompt(1) \o body \o Prompt(2)
        /\ taken = TextBannerBody \o <<"(", "1", ")", " ", "-", ">">>

\* request(): text = self.send(line, timeout=timeout) on a child that has
\* answered and stays idle: the wait dequeues up to the first byte at which
\* the search succeeds and send returns those bytes; when the search never
\* succeeds the wait takes everything and send raises its timeout.
RequestSend ==
    /\ pc = "send_wait"
    /\ cur.op = "request"
    /\ LET n == SendBlockLen(buffer, queue) IN
       IF n > 0
       THEN /\ collected' = SubSeq(queue, 1, n)
            /\ buffer' = buffer \o SubSeq(queue, 1, n)
            /\ queue' = SubSeq(queue, n + 1, Len(queue))
            /\ taken' = taken \o SubSeq(queue, 1, n)
            /\ pc' = "request"
            /\ ret' = [ret EXCEPT !.found = TRUE]
       ELSE /\ collected' = queue
            /\ buffer' = buffer \o queue
            /\ queue' = <<>>
            /\ taken' = taken \o queue
            /\ pc' = "idle"
            /\ ret' = [ret EXCEPT !.kind = "CommandTimeout"]
    /\ remain' = 0
    /\ UNCHANGED <<cur, proc, spawned, banner_text, nsend, faults,
                   alive, todo, inbox, nprompt, pipe, stop_event, reader,
                   orphans, ready, bannerBody, emitted, written, enqueued>>

\* request(): the rest of it, from the decoded block to the return.  cur
\* keeps the arguments of the call.
RequestReturn ==
    /\ pc = "request"
    /\ ret' = [ret EXCEPT !.kind = "ok", !.promptEmitted = PromptIn(emitted),
                          !.text = Request(Decode(collected), cur.line, cur.raw)]
    /\ pc' = "idle"
    /\ UNCHANGED <<cur, remain, collected, proc, spawned, buffer, banner_text,
                   nsend, faults, world>>

TextNext == RequestSend \/ RequestReturn

TextSpec == TextInit /\ [][TextNext]_vars

(* ----------------------------- properties ------------------------------ *)
\* The command lines (not )quit) written to the latest child.
IsCommand(l) == l # QuitLine
SentLines == SelectSeq(written, IsCommand)

\* The last call has returned, and it was op.
Returned(op) == pc = "idle" /\ ret.op = op

\* The session is Running (start() saw the child's first prompt) and the
\* child has answered every line written to it: it has not exited and was
\* never told to quit.
WellBehaved == ready /\ alive /\ SentLines = written

\* C1: on a Running session whose child answers every line, the k-th request
\* returns exactly the output the child emitted for the k-th line, its prompt "(k+1) -> " with the trailing space
\* included: nothing of an earlier response, nothing missing.
C1_RequestReturnsOwnResponse ==
    (Returned("send") /\ ret.kind = "ok" /\ WellBehaved)
        => ret.text = Decode(Response(LineOf(nsend), Len(SentLines) + 1))

\* C2: after a start() that launched a child and returned successfully,
\* banner_text is what the child emitted before its first prompt marker (with
\* or without the newline that ends it), the marker not included, and the
\* rolling buffer is empty.
C2_BannerExcludesPrompt ==
    (Returned("start") /\ ret.kind = "ok" /\ ~ret.noop)
        => /\ banner_text \in {Decode(bannerBody), RStrip(Decode(bannerBody))}
           /\ buffer = <<>>

\* C3: when send(L, timeout) wrote L and its prompt wait ended without a
\* match, send fails with a command timeout that names L and hands no text
\* to its caller.
C3_SendTimeoutNamesLine ==
    (Returned("send") /\ ret.wrote /\ ~ret.found)
        => /\ ret.kind = "CommandTimeout"
           /\ ret.line = LineOf(nsend)
           /\ ret.text = <<>>

\* A send() wrote its line, collected bytes of the answer and ran out of time.
C3_Witness ==
    /\ Returned("send")
    /\ ret.wrote
    /\ ~ret.found
    /\ ret.kind = "CommandTimeout"
    /\ collected # <<>>

\* C4: when the prompt wait inside send expires, the failure carries the
\* bytes collected during that wait.
C4_TimeoutCarriesCollected ==
    (Returned("send") /\ ret.kind = "CommandTimeout") => ret.data = collected

\* C5: a start() that launches a child fails with a startup timeout only if
\* no prompt marker reached it, leaving banner_text as it was, and succeeds
\* only if the child had emitted a prompt marker.
C5_StartupTimeoutIffNoPrompt ==
    /\ (pc = "idle" /\ ret.kind = "StartupTimeout")
           => (~PromptIn(collected) /\ banner_text = ret.before)
    /\ (Returned("start") /\ ret.kind = "ok" /\ ~ret.noop) => ret.promptEmitted

\* What start() may not touch when the child is running: the handle, the
\* launch count, the rolling buffer, the banner, the child, its pipe, the
\* queue, the reader and its stop event.
StartFrame == <<proc, spawned, buffer, banner_text, alive, todo, inbox,
                nprompt, pipe, queue, enqueued, taken, stop_event, reader, orphans, written>>

\* C6: start() called while the child is running launches nothing and leaves
\* the handle, the queue, the reader, the rolling buffer and banner_text
\* unchanged.
C6_StartWhileRunningIsNoop ==
    [][(proc # None /\ alive /\ (\E T \in Timeouts : CallStart(T)))
          => UNCHANGED StartFrame]_vars

\* start() has returned from a call made while the child was running.
C6_Witness ==
    /\ Returned("start")
    /\ ret.noop
    /\ proc # None
    /\ alive

\* What stop() may not touch when there is nothing to stop.
StopFrame == <<pc, proc, spawned, buffer, banner_text, alive, todo, inbox,
               nprompt, pipe, queue, enqueued, taken, stop_event, reader, orphans, written,
               faults>>

\* C7: stop() on a session never started, or called right after a completed
\* stop(), changes nothing; and a completed stop() has cleared the handle.
C7_StopTwiceIsNoop ==
    [][/\ (/\ pc = "idle"
           /\ spawned = 0 \/ (ret.op = "stop" /\ ret.kind = "ok")
           /\ \E G \in Timeouts, wok \in BOOLEAN : CallStop(G, wok))
          => UNCHANGED StopFrame
       /\ (pc' = "idle" /\ ret'.op = "stop" /\ ret'.kind = "ok")
          => proc' = None]_vars

\* A stop() called after a session was stopped has returned at its first test.
C7_Witness ==
    /\ Returned("stop")
    /\ ret.noop
    /\ spawned > 0
    /\ proc = None

\* C8: whenever stop() has returned, the child is not alive and the reader
\* thread is not running.
C8_StopLeavesNothingRunning ==
    (Returned("stop") /\ ret.kind = "ok") => (~alive /\ reader # "read")

\* C9: stop() always returns normally, with the handle cleared.
C9_StopNeverRaises ==
    Returned("stop") => (ret.kind = "ok" /\ proc = None)

\* C10: a request on a Running session during which the child exited without having emitted a
\* prompt since the line was written fails with a timeout; and send() writes its line only to a
\* child that is running, launched afresh when the previous one has exited.
C10_ExitDuringRequestTimesOut ==
    /\ (/\ Returned("send")
        /\ ready
        /\ ret.wrote
        /\ ret.childExited
        /\ NumPrompts(emitted) = ret.promptsAtWrite)
           => ret.kind = "CommandTimeout"
    /\ (pc = "start_wait" /\ cur.op = "send") => written = <<>>
    /\ pc = "send_wait" => (proc = spawned /\ SentLines # <<>>)

\* C11: whatever the child does (it may hang and never emit a prompt), the
\* wait of send(L, timeout) ends, and while it lasts no more than timeout
\* poll intervals have passed since it began.
C11_SendWaitEnds ==
    /\ [](pc = "send_wait" => remain \in 0..cur.timeout)
    /\ (pc = "send_wait") ~> (pc = "idle")

\* A send() ran out of time on a Running session whose child never answered.
C11_Witness ==
    /\ Returned("send")
    /\ ready
    /\ ret.kind = "CommandTimeout"
    /\ NumPrompts(emitted) = ret.promptsAtWrite
    /\ collected = <<>>

\* C12: the text request(L, raw=true) returns does not end with a prompt
\* marker, and stripping the prompt from it again changes nothing.
C12_RawEndsWithoutPrompt ==
    (Returned("request") /\ cur.raw)
        => /\ ~PromptSearch(ret.text)
           /\ StripPrompt(ret.text) = ret.text

\* What the child emitted in answer to the line of the request, without the
\* prompt that ends it.
ResponseBody ==
    SubSeq(emitted, Len(TextBannerBody \o Prompt(1)) + 1,
           Len(emitted) - Len(Prompt(2)))

\* The lines of text that match no Banner Strip pattern and are not blank.
IsKeptLine(ln) == ~BannerMatches(ln) /\ Strip(ln) # <<>>
KeptLines(text) == SelectSeq(SplitLines(text), IsKeptLine)

\* The lines of ls, each without its leading and trailing whitespace.
StripEach(ls) == [i \in 1..Len(ls) |-> Strip(ls[i])]

\* ls without its last line.
Front(ls) == SubSeq(ls, 1, Len(ls) - 1)

\* C13: the text request(L, raw=false) returns has no line that matches a
\* Banner Strip pattern and no blank line; its lines are, in order and up to
\* the whitespace around each, the other lines of the block that send
\* returned (the final prompt aside), with or without the last of them; the
\* block "\n   4\n(2) -> " answering "2+2" gives "4".
C13_CleanedKeepsOtherLines ==
    (Returned("request") /\ ~cur.raw)
        => LET lines == SplitLines(ret.text)
               kept == StripEach(KeptLines(StripPrompt(Decode(collected))))
           IN
           /\ \A i \in 1..Len(lines) : IsKeptLine(lines[i])
           /\ StripEach(lines) \in {kept, Front(kept)}
           /\ (ResponseBody = PieceBlank \o PieceIndented /\ cur.line = Cmd2Plus2)
                 => ret.text = <<"4">>

\* C14: banner_text changes only in the prompt wait of a launch, and no call
\* made on a session whose child runs begins a launch: across send/request
\* calls that do not restart the child, banner_text keeps its value.
C14_BannerKeptWhileRunning ==
    [][/\ (banner_text' # banner_text) => pc = "start_wait"
       /\ (pc = "idle" /\ proc # None /\ alive) => pc' # "start_wait"]_vars

C14_Witness ==
    /\ Returned("send") /\ ret.kind = "ok"
    /\ spawned = 1 /\ nsend = 2
    /\ banner_text # <<>> /\ banner_text = ret.before

\* The failure kinds that main() is to tell apart.
FailureKinds == {"LaunchFailure", "StartupTimeout", "CommandTimeout", "Interrupted"}

\* C15: when a session call fails, main() returns 2 for a launch failure,
\* 124 for a command timeout and 130 for an interruption, and a code that it
\* returns for no other failure kind.
C15_ExitCodePerFailureKind ==
    (pc = "idle" /\ ret.kind \in FailureKinds)
        => /\ ret.kind = "LaunchFailure" => ExitCodes(ret.kind) = {2}
           /\ ret.kind = "CommandTimeout" => ExitCodes(ret.kind) = {124}
           /\ ExitCodes("Interrupted") = {130}
           /\ \A k \in FailureKinds \ {ret.kind} :
                 ExitCodes(k) \cap ExitCodes(ret.kind) = {}

\* The lifecycle state of the session: Stopping while stop() is in progress,
\* otherwise by the child handle (Running from the launch on).
StopPcs == {"stop_grace", "stop_join", "stop_sleep"}
LifeOf(p, handle, launches) ==
    IF p \in StopPcs THEN "Stopping"
    ELSE IF handle # None THEN "Running"
    ELSE IF launches = 0 THEN "NotStarted"
    ELSE "Stopped"
Life == LifeOf(pc, proc, spawned)
LifeSteps ==
    {<<"NotStarted", "Running">>, <<"Running", "Stopping">>,
     <<"Running", "Stopped">>, <<"Stopping", "Stopped">>}

\* C16: the lifecycle state changes only along NotStarted -> Running ->
\* (Stopping) -> Stopped, and the session leaves Running only in stop().
C16_LifecycleSteps ==
    [][LET a == Life
           b == LifeOf(pc', proc', spawned')
       IN
       /\ a # b => <<a, b>> \in LifeSteps
       /\ (a = "Running" /\ b # "Running")
             => (pc' \in StopPcs \/ ret'.op = "stop")]_vars

\* C17: the block a successful send() returns ends with a complete prompt
\* marker: the wait is never satisfied by marker bytes that an earlier call
\* left in the rolling buffer.
C17_BlockEndsWithOwnPrompt ==
    (Returned("send") /\ ret.kind = "ok" /\ ret.found)
        => /\ ret.text = Decode(collected)
           /\ PromptSearch(collected)

\* The rolling buffer after n more bytes of the queue have been dequeued.
BufferAfter(n) == buffer \o SubSeq(queue, 1, n)

\* C18: in the prompt wait of send(), at every byte dequeued the search on
\* the last TailWindow bytes of the rolling buffer gives the answer of the
\* search on the whole rolling buffer (the markers are shorter than the
\* window), and when the wait has returned found the rolling buffer ends with
\* a prompt marker.
C18_WindowSearchIsWholeSearch ==
    /\ (pc = "send_wait" /\ cur.op = "request")
          => \A n \in 1..Len(queue) :
                PromptSearch(LastN(BufferAfter(n), TailWindow))
                    = PromptSearch(BufferAfter(n))
    /\ (cur.op = "request" /\ ret.found) => PromptSearch(buffer)

C18_Witness ==
    /\ pc = "request" /\ ret.found
    /\ Len(buffer) > TailWindow
    /\ PromptSearch(buffer)

\* C19: the text request(L, raw=true) returns is what the child emitted in
\* answer to L up to its final prompt marker, whitespace at the two ends
\* aside: a "(N) ->" that ends an interior line of the response is kept.
C19_RawKeepsInteriorPrompt ==
    (Returned("request") /\ cur.raw)
        => LStrip(ret.text) = Strip(Decode(ResponseBody))

\* The lines that remain of the block after the prompt, the banner lines and
\* the blank lines have been removed, and the lines of the text returned.
Remaining == SplitLines(CleanTextBlock(StripPrompt(Decode(collected))))
ReturnedLines == SplitLines(ret.text)

StopOrder == <<"stop_grace", "stop_join", "stop_sleep", "idle">>
StopRank(p) == CHOOSE i \in 1..Len(StopOrder) : StopOrder[i] = p

\* C21: stop() on a running child begins with the graceful wait and moves
\* through its phases in order; the reader's stop signal is set when the
\* graceful wait is left and stays set; when stop() kills the child or
\* returns, the signal is set; a kill is attempted only on a live child.
C21_StopOrder ==
    [][/\ (pc = "idle" /\ proc # None /\ alive /\ ret' # ret /\ ret'.op = "stop")
             => pc' = "stop_grace"
       /\ (pc = "idle" /\ pc' \in StopPcs)
             => (pc' # "stop_grace" => stop_event')
       /\ pc \in StopPcs
             => /\ StopRank(pc') >= StopRank(pc)
                /\ stop_event => stop_event'
                /\ pc' # "stop_grace" => stop_event'
                /\ (alive /\ ~alive' /\ proc' = None) => stop_event'
                /\ faults' # faults => alive]_vars

C21_Witness ==
    /\ Returned("stop") /\ ret.kind = "ok" /\ ~ret.noop
    /\ stop_event /\ ~alive /\ reader = "read"
    /\ \A i \in 1..Len(written) : written[i] # QuitLine

IsPrefix(a, b) == Len(a) <= Len(b) /\ SubSeq(b, 1, Len(a)) = a
IsSuffix(a, b) == Len(a) <= Len(b) /\ SubSeq(b, Len(b) - Len(a) + 1, Len(b)) = a

\* C22: what the reader has put into the queue is a prefix of what the child
\* emitted (the rest is in the pipe), what the prompt waits have taken is a
\* prefix of what the reader has put (the rest is in the queue), and the
\* accumulator of the current wait is the end of what was taken.
C22_BytesKeepOrder ==
    /\ IsPrefix(enqueued, emitted)
    /\ emitted = enqueued \o pipe
    /\ IsPrefix(taken, enqueued)
    /\ enqueued = taken \o queue
    /\ IsSuffix(collected, taken)

C22_Witness ==
    /\ pc = "send_wait"
    /\ collected # <<>> /\ queue # <<>> /\ pipe # <<>>
    /\ Len(taken) > Len(collected)

\* C23: main() ends with session.stop() (its finally clause), and once that
\* stop() has ended, normally or not, the child the session launched is not
\* alive.
C23_NoChildAfterMainStop ==
    Returned("stop") => ~alive

\* C24: when interactive_repl ends after the user entered a quit command
\* and the child exited during the request for it, it ends by returning 0,
\* not by an exception of the request.
C24_ReplQuitReturns ==
    (ret.op = "repl" /\ ret.line = QuitLine /\ ret.childExited)
        => ret.kind = "ok"

\* C25: whenever start() has returned normally, the driver has taken a
\* complete prompt marker from the queue of the current child.
C25_StartMeansPromptTaken ==
    (Returned("start") /\ ret.kind = "ok") => PromptIn(taken)

\* C26: when start() has raised (startup timeout or launch failure), the
\* child it launched is not alive and no reader thread is running.
C26_FailedStartCleansUp ==
    (pc = "idle" /\ ret.kind \in {"StartupTimeout", "LaunchFailure"})
        => (~alive /\ reader # "read")

\* The bytes of s.
Bytes(s) == {s[i] : i \in 1..Len(s)}

\* What the child prints for the lines other than l, prompts aside.
OtherOutput(l) == UNION {Bytes(Out(m)) \ {"\n"} : m \in Lines \ {l}}

\* C27: on a Running session whose child answers every line, a successful
\* request that follows a request that timed out returns nothing of what
\* the child printed for another line.
C27_NoLateOutput ==
    (Returned("send") /\ ret.kind = "ok" /\ ret.afterTimeout /\ WellBehaved)
        => Bytes(ret.text) \cap OtherOutput(LineOf(nsend)) = {}

====
